---- MODULE Spec2Model ----
(***************************************************************************)
(* A model of relevec.py: the registry of dynamically created subclasses   *)
(* of ReleVec (ReleVec._exportable_subclasses), the sparse vectors         *)
(* (instances with a sparse_vec dict) and their serialization.             *)
(*                                                                         *)
(* Python values are represented as follows.                               *)
(*   - a class name is a sequence of one-character strings, so that the    *)
(*     naming convention can inspect name[0] and name[1];                  *)
(*   - a dict with optional keys (substruct_dict, keyword arguments) is a  *)
(*     function whose DOMAIN is the set of keys present;                   *)
(*   - a dict that is iterated (subclasses_dict, dimdict) is the sequence  *)
(*     of its items, keys pairwise distinct;                               *)
(*   - a float is an integer (only integral floats are drawn);             *)
(*   - a raised exception is a record [exc, about]; NoErr means the call   *)
(*     returned normally.                                                  *)
(***************************************************************************)
EXTENDS Integers, Sequences, FiniteSets, TLC

VARIABLES registry, vecs, last

vars == <<registry, vecs, last>>

(***************************************************************************)
(* Bounds of the model                                                     *)
(***************************************************************************)
MaxRecLen == 3

(***************************************************************************)
(* Exceptions                                                              *)
(***************************************************************************)
NoErr == [exc |-> "none", about |-> ""]

\* `raise X(...)` where X is one of the exception classes that are defined
\* as inner classes of ReleVec but named without qualification inside a
\* method body: class-scope names are not visible there and X is no module
\* global, so evaluating the name raises NameError before X is constructed.
RaiseInnerClass(x) == [exc |-> "NameError", about |-> x]

\* a failed `assert`
AssertionError(msg) == [exc |-> "AssertionError", about |-> msg]

(***************************************************************************)
(* Characters and names                                                    *)
(***************************************************************************)
UpperChars == {"A","B","C","D","E","F","G","H","I","J","K","L","M",
               "N","O","P","Q","R","S","T","U","V","W","X","Y","Z"}

LowerChars == {"a","b","c","d","e","f","g","h","i","j","k","l","m",
               "n","o","p","q","r","s","t","u","v","w","x","y","z"}

DigitChars == {"0","1","2","3","4","5","6","7","8","9"}

isupper(c) == c \in UpperChars

islower(c) == c \in LowerChars

isdigit(c) == c \in DigitChars

ReleVecName == <<"R","e","l","e","V","e","c">>

LimitedIdxBaseName ==
    <<"_","S","V","_","L","i","m","i","t","e","d","I","d","x","B","a","s","e">>

NamedDimBaseName ==
    <<"_","S","V","_","N","a","m","e","d","D","i","m","B","a","s","e">>

\* globals() of the module once it is loaded: every name bound at module
\* level (the module's dunder attributes, all ill-formed class names, are
\* represented by __name__).
ModuleGlobals == {
    <<"s","y","s">>,
    <<"t","y","p","i","n","g">>,
    <<"m","a","t","h">>,
    <<"R","e","l","e","V","e","c","C","u","s","t","o","m",
      "E","x","c","e","p","t","i","o","n">>,
    ReleVecName,
    LimitedIdxBaseName,
    NamedDimBaseName,
    <<"_","p","e","r","f","o","r","m","_","m","o","d","u","l","e","_",
      "m","o","n","k","e","y","p","a","t","c","h","i","n","g">>,
    <<"m","i","n","_","r","e","q","_","p","y","_","v","e","r">>,
    <<"_","_","n","a","m","e","_","_">> }

(***************************************************************************)
(* Classes                                                                 *)
(***************************************************************************)
\* A class object: its __name__, the name of its single direct base, and
\* the two class attributes the created subclasses may override.
\* dim_registry is the items() of the _dim_registry dict, in insertion order.
MkClass(name, base, ct, reg) ==
    [name |-> name, base |-> base, dimidx_ct |-> ct, dim_registry |-> reg]

\* the Python value None, where a class is expected
NoClass == MkClass(<<>>, <<>>, 0, <<>>)

ReleVecClass == MkClass(ReleVecName, <<"o","b","j","e","c","t">>, 0, <<>>)

LimitedIdxBaseClass == MkClass(LimitedIdxBaseName, ReleVecName, 0, <<>>)

NamedDimBaseClass == MkClass(NamedDimBaseName, LimitedIdxBaseName, 0, <<>>)

\* the classes a class is a subclass of (itself included)
Ancestors(cls) ==
    {cls} \cup
    (IF cls.base = ReleVecName THEN {ReleVecClass}
     ELSE IF cls.base = LimitedIdxBaseName
          THEN {LimitedIdxBaseClass, ReleVecClass}
     ELSE IF cls.base = NamedDimBaseName
          THEN {NamedDimBaseClass, LimitedIdxBaseClass, ReleVecClass}
     ELSE {})

issubclass(cls, parent) == parent \in Ancestors(cls)

(***************************************************************************)
(* Dicts                                                                   *)
(***************************************************************************)
EmptyDict == [k \in {} |-> 0]

Put(d, k, v) == [x \in (DOMAIN d) \cup {k} |-> IF x = k THEN v ELSE d[x]]

(***************************************************************************)
(* Input validation                                                        *)
(***************************************************************************)
reject_bad_subclass_name(name) ==
    IF Len(name) < 1 THEN RaiseInnerClass("SvSubclassNameConventionError")
    ELSE IF islower(name[1])
         THEN RaiseInnerClass("SvSubclassNameConventionError")
    ELSE IF isdigit(name[1])
         THEN RaiseInnerClass("SvSubclassNameConventionError")
    ELSE IF isupper(name[1]) THEN NoErr
    ELSE IF name[1] = "_" /\ Len(name) > 1
         THEN IF isupper(name[2]) THEN NoErr
              ELSE RaiseInnerClass("SvSubclassNameConventionError")
    ELSE RaiseInnerClass("SvSubclassNameConventionError")

reject_unavailable_subclass_name_NoCheck(reg, name) == NoErr

reject_unavailable_subclass_name(reg, name) ==
    IF name \in DOMAIN reg THEN RaiseInnerClass("SvSubclassNameInUse")
    ELSE IF name \in ModuleGlobals
         THEN RaiseInnerClass("SvNonSubclassGlobalNameInUse")
    ELSE NoErr

(***************************************************************************)
(* Fetching and creating subclasses                                        *)
(***************************************************************************)
get_subclass_by_name_AlwaysFallback(reg, class_name) ==
    IF class_name \in DOMAIN reg THEN reg[class_name]
    ELSE ReleVecClass

get_subclass_by_name(reg, class_name) ==
    IF class_name \in DOMAIN reg THEN reg[class_name]
    ELSE IF class_name = ReleVecName THEN ReleVecClass
    ELSE NoClass

\* dict.get(key): the value, or None reported as absent
HasKey(d, k) == k \in DOMAIN d

\* The loop `for dimidx, dimnam in enumerate(dim_names)` that fills dim_reg:
\* fails on the first name already in dim_reg.
enumerate_dim_names(dim_names) ==
    IF \E i, j \in 1..Len(dim_names) : i < j /\ dim_names[i] = dim_names[j]
    THEN [err |-> AssertionError("appeared multiple times in dim_names"),
          dim_reg |-> <<>>]
    ELSE [err |-> NoErr,
          dim_reg |-> [i \in 1..Len(dim_names) |-> <<dim_names[i], i - 1>>]]

\* The creation code shared (textually duplicated) by
\* get_specified_subclass and import_substruct_dict: dim_names, when
\* given, takes precedence over dim_ct.
create_subclass(class_name, kw) ==
    IF HasKey(kw, "dim_names")
    THEN LET e == enumerate_dim_names(kw["dim_names"]) IN
         IF e.err # NoErr THEN [err |-> e.err, cls |-> NoClass]
         ELSE [err |-> NoErr,
               cls |-> MkClass(class_name, NamedDimBaseName,
                               Len(e.dim_reg), e.dim_reg)]
    ELSE IF HasKey(kw, "dim_ct")
    THEN [err |-> NoErr,
          cls |-> MkClass(class_name, LimitedIdxBaseName, kw["dim_ct"], <<>>)]
    ELSE [err |-> NoErr, cls |-> MkClass(class_name, ReleVecName, 0, <<>>)]

Result(reg, ret, err) == [reg |-> reg, ret |-> ret, err |-> err]

get_specified_subclass_Recreate(reg, class_name, kw) ==
    LET bad == reject_bad_subclass_name(class_name)
        c == create_subclass(class_name, kw)
    IN  IF bad # NoErr THEN Result(reg, NoClass, bad)
        ELSE IF class_name = ReleVecName THEN Result(reg, ReleVecClass, NoErr)
        ELSE IF c.err # NoErr THEN Result(reg, NoClass, c.err)
        ELSE Result(Put(reg, class_name, c.cls), c.cls, NoErr)

get_specified_subclass(reg, class_name, kw) ==
    LET a_class == get_subclass_by_name(reg, class_name)
        bad == reject_bad_subclass_name(class_name)
        c == create_subclass(class_name, kw)
    IN  IF bad # NoErr THEN Result(reg, NoClass, bad)
        ELSE IF a_class = NoClass
        THEN IF c.err # NoErr THEN Result(reg, NoClass, c.err)
             ELSE Result(Put(reg, class_name, c.cls), c.cls, NoErr)
        ELSE Result(reg, a_class, NoErr)

import_substruct_dict(reg, class_name, substruct_dict) ==
    LET unavailable == reject_unavailable_subclass_name(reg, class_name)
        bad == reject_bad_subclass_name(class_name)
        c == create_subclass(class_name, substruct_dict)
    IN  IF unavailable # NoErr THEN Result(reg, NoClass, unavailable)
        ELSE IF bad # NoErr THEN Result(reg, NoClass, bad)
        ELSE IF c.err # NoErr THEN Result(reg, NoClass, c.err)
        ELSE Result(Put(reg, class_name, c.cls), c.cls, NoErr)

\* for subtuple in subclasses_dict.items(): import_substruct_dict(...)
\* The first exception leaves the loop; the function returns None.
RECURSIVE import_subclasses_dict_Skip(_, _)
import_subclasses_dict_Skip(reg, items) ==
    IF items = <<>> THEN Result(reg, NoClass, NoErr)
    ELSE LET r == import_substruct_dict(reg, items[1][1], items[1][2])
             rest == import_subclasses_dict_Skip(r.reg, Tail(items))
         IN  IF r.err # NoErr THEN Result(rest.reg, NoClass, r.err)
             ELSE rest

RECURSIVE import_subclasses_dict(_, _)
import_subclasses_dict(reg, items) ==
    IF items = <<>> THEN Result(reg, NoClass, NoErr)
    ELSE LET r == import_substruct_dict(reg, items[1][1], items[1][2])
         IN  IF r.err # NoErr THEN Result(r.reg, NoClass, r.err)
             ELSE import_subclasses_dict(r.reg, Tail(items))

(***************************************************************************)
(* Serialization of the class structure                                    *)
(***************************************************************************)
\* list(cls._dim_registry.keys())
dim_registry_keys(cls) ==
    [i \in 1..Len(cls.dim_registry) |-> cls.dim_registry[i][1]]

export_substruct_dict_NamedNotOverridden(cls) ==
    IF issubclass(cls, LimitedIdxBaseClass) THEN [dim_ct |-> cls.dimidx_ct]
    ELSE EmptyDict

\* method resolution: _SV_NamedDimBase overrides _SV_LimitedIdxBase, which
\* overrides ReleVec
export_substruct_dict(cls) ==
    IF issubclass(cls, NamedDimBaseClass)
    THEN [dim_names |-> dim_registry_keys(cls)]
    ELSE IF issubclass(cls, LimitedIdxBaseClass)
    THEN [dim_ct |-> cls.dimidx_ct]
    ELSE EmptyDict

export_subclasses_dict(reg) ==
    [sub_name \in DOMAIN reg |-> export_substruct_dict(reg[sub_name])]

(***************************************************************************)
(* Inputs of the registry operations                                       *)
(***************************************************************************)
NameCi == <<"C","i">>

NameCn == <<"_","C","n">>

\* class names drawn for the single-name operations
NameInputs == { NameCi, NameCn, ReleVecName, <<"l","o","w","e","r">>, <<>>, <<"1","X">>,
                <<"_","x">>, <<"_">>, <<"$">> }

\* class names drawn for the entries of a subclasses_dict
RecNameInputs == { NameCi, NameCn, ReleVecName }

\* substruct dicts / keyword arguments
ShapeInputs == { EmptyDict,
                 [dim_ct |-> 3],
                 [dim_names |-> <<"a","b">>],
                 [dim_names |-> <<"b","a">>],
                 [dim_names |-> <<"a","a">>],
                 [dim_names |-> <<"a","b">>, dim_ct |-> 2] }

RecShapeInputs == { EmptyDict,
                    [dim_ct |-> 3],
                    [dim_names |-> <<"a","b">>] }

\* a subclasses_dict: items with pairwise distinct keys
SubclassesDicts ==
    { items \in UNION { [1..n -> RecNameInputs \X RecShapeInputs] :
                        n \in 0..MaxRecLen } :
        \A i, j \in 1..Len(items) : i # j => items[i][1] # items[j][1] }

(***************************************************************************)
(* State                                                                   *)
(***************************************************************************)
\* last: the most recent call, its arguments, the registry it started
\* from, and its outcome.
Call(op, name, arg, pre, r) ==
    [op |-> op, name |-> name, arg |-> arg, pre |-> pre,
     ret |-> r.ret, err |-> r.err]

NoCall == [op |-> "none", name |-> <<>>, arg |-> EmptyDict, pre |-> EmptyDict,
           ret |-> NoClass, err |-> NoErr]

Init ==
    /\ registry = EmptyDict
    /\ vecs = <<>>
    /\ last = NoCall

GetSpecifiedSubclass ==
    \E class_name \in NameInputs, kw \in ShapeInputs :
        LET r == get_specified_subclass(registry, class_name, kw) IN
        /\ registry' = r.reg
        /\ last' = Call("get_specified_subclass", class_name, kw, registry, r)
        /\ UNCHANGED vecs

ImportSubstructDict ==
    \E class_name \in NameInputs, substruct_dict \in ShapeInputs :
        LET r == import_substruct_dict(registry, class_name, substruct_dict) IN
        /\ registry' = r.reg
        /\ last' = Call("import_substruct_dict", class_name, substruct_dict,
                        registry, r)
        /\ UNCHANGED vecs

ImportSubclassesDict ==
    \E items \in SubclassesDicts :
        LET r == import_subclasses_dict(registry, items) IN
        /\ registry' = r.reg
        /\ last' = Call("import_subclasses_dict", <<>>, items, registry, r)
        /\ UNCHANGED vecs

ExportSubclassesDict ==
    /\ last' = [op |-> "export_subclasses_dict", name |-> <<>>,
                arg |-> EmptyDict, pre |-> registry,
                ret |-> export_subclasses_dict(registry), err |-> NoErr]
    /\ UNCHANGED <<registry, vecs>>

GetSubclassByName ==
    \E class_name \in NameInputs :
        /\ last' = [op |-> "get_subclass_by_name", name |-> class_name,
                    arg |-> EmptyDict, pre |-> registry,
                    ret |-> get_subclass_by_name(registry, class_name),
                    err |-> NoErr]
        /\ UNCHANGED <<registry, vecs>>

Next ==
    \/ GetSpecifiedSubclass
    \/ ImportSubstructDict
    \/ ImportSubclassesDict
    \/ ExportSubclassesDict
    \/ GetSubclassByName

Spec == Init /\ [][Next]_vars

(***************************************************************************)
(* Vectors                                                                 *)
(***************************************************************************)
\* 1 / ReleVec._eps
EpsInverse == 1000000

MaxIdx == 2

MaxVal == 1

MaxPairs == 2

\* a dimension key as it appears in a dimdict: an int (dimidx) or a str
\* (dimnam)
IntKey(i) == [t |-> "int", i |-> i, s |-> ""]

StrKey(s) == [t |-> "str", i |-> 0, s |-> s]

\* an instance: type(self) and self.sparse_vec (dimidx -> dimval)
MkVec(cls, sv) == [cls |-> cls, sparse_vec |-> sv]

\* no instance bound to the variable
NoVec == MkVec(NoClass, EmptyDict)

\* outcome of a method: exception raised, value returned, sparse_vec after
VRes(err, ret, sv) == [err |-> err, ret |-> ret, sparse_vec |-> sv]

is_valid_dimidx_NoLowerBound(cls, key) ==
    IF key.t # "int"
    THEN [err |-> AssertionError("dimidx must be an int"), ret |-> FALSE]
    ELSE IF issubclass(cls, LimitedIdxBaseClass)
    THEN [err |-> NoErr, ret |-> key.i < cls.dimidx_ct]
    ELSE [err |-> NoErr, ret |-> TRUE]

is_valid_dimidx_NoUpperBound(cls, key) ==
    IF key.t # "int"
    THEN [err |-> AssertionError("dimidx must be an int"), ret |-> FALSE]
    ELSE [err |-> NoErr, ret |-> 0 <= key.i]

\* ReleVec.is_valid_dimidx, overridden by _SV_LimitedIdxBase
is_valid_dimidx(cls, key) ==
    IF key.t # "int"
    THEN [err |-> AssertionError("dimidx must be an int"), ret |-> FALSE]
    ELSE IF issubclass(cls, LimitedIdxBaseClass)
    THEN [err |-> NoErr, ret |-> 0 <= key.i /\ key.i < cls.dimidx_ct]
    ELSE [err |-> NoErr, ret |-> 0 <= key.i]

get_dimval_by_dimidx(vec, key) ==
    LET valid == is_valid_dimidx(vec.cls, key) IN
    IF valid.err # NoErr THEN VRes(valid.err, 0, vec.sparse_vec)
    ELSE IF ~valid.ret
    THEN VRes(AssertionError("dimidx invalid"), 0, vec.sparse_vec)
    ELSE IF key.i \in DOMAIN vec.sparse_vec
    THEN VRes(NoErr, vec.sparse_vec[key.i], vec.sparse_vec)
    ELSE VRes(NoErr, 0, vec.sparse_vec)

set_dimval_by_dimidx_Replace(vec, key, dimval) ==
    LET valid == is_valid_dimidx(vec.cls, key) IN
    IF valid.err # NoErr THEN VRes(valid.err, 0, vec.sparse_vec)
    ELSE IF ~valid.ret
    THEN VRes(AssertionError("dimidx invalid"), 0, vec.sparse_vec)
    ELSE VRes(NoErr, 0, Put(EmptyDict, key.i, dimval))

\* dimval is always a float here, so the second assert passes
set_dimval_by_dimidx(vec, key, dimval) ==
    LET valid == is_valid_dimidx(vec.cls, key) IN
    IF valid.err # NoErr THEN VRes(valid.err, 0, vec.sparse_vec)
    ELSE IF ~valid.ret
    THEN VRes(AssertionError("dimidx invalid"), 0, vec.sparse_vec)
    ELSE VRes(NoErr, 0, Put(vec.sparse_vec, key.i, dimval))

\* self._dim_registry[dimnam]
dim_registry_has(cls, dimnam) ==
    \E i \in 1..Len(cls.dim_registry) : cls.dim_registry[i][1] = dimnam

dim_registry_get(cls, dimnam) ==
    cls.dim_registry[CHOOSE i \in 1..Len(cls.dim_registry) :
                        cls.dim_registry[i][1] = dimnam][2]

get_dimval_by_dimnam(vec, dimnam) ==
    IF ~dim_registry_has(vec.cls, dimnam)
    THEN VRes([exc |-> "ValueError", about |-> "dimnam was not declared"],
              0, vec.sparse_vec)
    ELSE get_dimval_by_dimidx(vec, IntKey(dim_registry_get(vec.cls, dimnam)))

set_dimval_by_dimnam(vec, dimnam, dimval) ==
    IF ~dim_registry_has(vec.cls, dimnam)
    THEN VRes([exc |-> "ValueError", about |-> "dimnam was not declared"],
              0, vec.sparse_vec)
    ELSE set_dimval_by_dimidx(vec, IntKey(dim_registry_get(vec.cls, dimnam)),
                              dimval)

\* the loop of ReleVec.set_vec_by_dim_tuples: an exception leaves
\* self.sparse_vec as filled so far
RECURSIVE set_each_by_dimidx(_, _, _)
set_each_by_dimidx(cls, sv, dim_tuples) ==
    IF dim_tuples = <<>> THEN VRes(NoErr, 0, sv)
    ELSE LET r == set_dimval_by_dimidx(MkVec(cls, sv), dim_tuples[1][1],
                                       dim_tuples[1][2])
         IN  IF r.err # NoErr THEN r
             ELSE set_each_by_dimidx(cls, r.sparse_vec, Tail(dim_tuples))

\* the loop of _SV_NamedDimBase.set_vec_by_dim_tuples over str keys
RECURSIVE set_each_by_dimnam(_, _, _)
set_each_by_dimnam(cls, sv, dim_tuples) ==
    IF dim_tuples = <<>> THEN VRes(NoErr, 0, sv)
    ELSE IF dim_tuples[1][1].t # "str"
    THEN VRes(AssertionError("all keys must be str"), 0, sv)
    ELSE LET r == set_dimval_by_dimnam(MkVec(cls, sv), dim_tuples[1][1].s,
                                       dim_tuples[1][2])
         IN  IF r.err # NoErr THEN r
             ELSE set_each_by_dimnam(cls, r.sparse_vec, Tail(dim_tuples))

ReleVec_set_vec_by_dim_tuples(vec, dim_tuples) ==
    set_each_by_dimidx(vec.cls, EmptyDict, dim_tuples)

NamedDimBase_set_vec_by_dim_tuples(vec, dim_tuples) ==
    IF Len(dim_tuples) > 0
    THEN IF dim_tuples[1][1].t = "str"
         THEN set_each_by_dimnam(vec.cls, EmptyDict, dim_tuples)
         ELSE ReleVec_set_vec_by_dim_tuples(vec, dim_tuples)
    ELSE VRes(NoErr, 0, EmptyDict)

\* set_vec_by_dim_tuples(list(dimdict.items()), False), resolved on
\* type(self)
set_vec_by_dimdict(vec, dimdict) ==
    IF issubclass(vec.cls, NamedDimBaseClass)
    THEN NamedDimBase_set_vec_by_dim_tuples(vec, dimdict)
    ELSE ReleVec_set_vec_by_dim_tuples(vec, dimdict)

\* cls(dimdict): __init__ of the most derived base that defines it.  The
\* internal bases require to be the direct parent of type(self).
new_instance(cls, dimdict) ==
    LET required == IF issubclass(cls, NamedDimBaseClass)
                    THEN NamedDimBaseName ELSE LimitedIdxBaseName
    IN  IF issubclass(cls, LimitedIdxBaseClass) /\ cls.base # required
        THEN VRes(AssertionError("instance of an internal subclass"),
                  0, EmptyDict)
        ELSE set_vec_by_dimdict(MkVec(cls, EmptyDict), dimdict)

RECURSIVE SumOver(_, _)
SumOver(f, S) ==
    IF S = {} THEN 0
    ELSE LET k == CHOOSE x \in S : TRUE IN f[k] + SumOver(f, S \ {k})

get_magnitude_squared(vec) ==
    SumOver([k \in DOMAIN vec.sparse_vec |->
                vec.sparse_vec[k] * vec.sparse_vec[k]],
            DOMAIN vec.sparse_vec)

\* magnitude_squared < _eps, for an integral magnitude_squared
LessThanEps(x) == x * EpsInverse < 1

\* normalize computes get_magnitude_squared() and then evaluates
\* `magnitude_squared < MatchVecBase._eps`; MatchVecBase is bound nowhere,
\* so the comparison raises NameError and the lines after it (the zero
\* check, the threshold test and the division loop) are never reached.
normalize(vec) ==
    VRes([exc |-> "NameError", about |-> "MatchVecBase"], 0, vec.sparse_vec)

\* is_normalized calls equality_threshold by its bare name; it is a
\* classmethod of ReleVec and no module global, so the call raises NameError.
is_normalized(vec) ==
    VRes([exc |-> "NameError", about |-> "equality_threshold"], FALSE,
         vec.sparse_vec)

\* isinstance(target_vec, type(self)) accepts instances of subclasses of
\* type(self)
dot_product(self, target_vec) ==
    IF ~issubclass(target_vec.cls, self.cls)
    THEN VRes(AssertionError("target_vec is not an instance"), 0,
              self.sparse_vec)
    ELSE IF \E k \in DOMAIN self.sparse_vec :
               get_dimval_by_dimidx(target_vec, IntKey(k)).err # NoErr
    THEN VRes(AssertionError("dimidx invalid"), 0, self.sparse_vec)
    ELSE VRes(NoErr,
              SumOver([k \in DOMAIN self.sparse_vec |->
                         self.sparse_vec[k]
                           * get_dimval_by_dimidx(target_vec, IntKey(k)).ret],
                      DOMAIN self.sparse_vec),
              self.sparse_vec)

(***************************************************************************)
(* Serialization of instance data                                          *)
(***************************************************************************)
\* sparse_vec is kept as a mapping; its items are listed by ascending dimidx
RECURSIVE SortedKeys(_)
SortedKeys(S) ==
    IF S = {} THEN <<>>
    ELSE LET m == CHOOSE x \in S : \A y \in S : x <= y
         IN  <<m>> \o SortedKeys(S \ {m})

ReleVec_export_dict(vec) ==
    LET keys == SortedKeys(DOMAIN vec.sparse_vec) IN
    VRes(NoErr,
         [class_name |-> vec.cls.name,
          dimdict |-> [n \in 1..Len(keys) |->
                         <<IntKey(keys[n]), vec.sparse_vec[keys[n]]>>]],
         vec.sparse_vec)

\* dimnam_list[dimidx] is the (dimnam, dimidx) item at position dimidx
NamedDimBase_export_dict(vec) ==
    LET keys == SortedKeys(DOMAIN vec.sparse_vec)
        dimnam_list == vec.cls.dim_registry
    IN  IF \E n \in 1..Len(keys) : dimnam_list[keys[n] + 1][2] # keys[n]
        THEN VRes(AssertionError("Dim registry was not sorted"), <<>>,
                  vec.sparse_vec)
        ELSE VRes(NoErr,
                  [class_name |-> vec.cls.name,
                   dimdict |-> [n \in 1..Len(keys) |->
                                  <<StrKey(dimnam_list[keys[n] + 1][1]),
                                    vec.sparse_vec[keys[n]]>>]],
                  vec.sparse_vec)

export_dict(vec) ==
    IF issubclass(vec.cls, NamedDimBaseClass)
    THEN NamedDimBase_export_dict(vec)
    ELSE ReleVec_export_dict(vec)

\* class_name is a str: the convention check may reject it, and the test
\* `not isinstance(class_name, dict)` that follows is then always true.
reject_bad_instance_dict(instance_dict) ==
    LET bad == reject_bad_subclass_name(instance_dict.class_name) IN
    IF bad # NoErr THEN bad
    ELSE RaiseInnerClass("SvInstanceDictError")

import_dict(vec, serialized_instance_dict) ==
    LET bad == reject_bad_instance_dict(serialized_instance_dict) IN
    IF bad # NoErr THEN VRes(bad, 0, vec.sparse_vec)
    ELSE set_vec_by_dimdict(vec, serialized_instance_dict.dimdict)

(***************************************************************************)
(* Inputs of the vector operations                                         *)
(***************************************************************************)
NameCu == <<"C","u">>

NameCj == <<"C","j">>

\* the registry the vector operations run against
VecRegistry ==
    import_subclasses_dict(EmptyDict,
        << <<NameCu, EmptyDict>>,
           <<NameCi, [dim_ct |-> 2]>>,
           <<NameCn, [dim_names |-> <<"a","b">>]>>,
           <<NameCj, [dim_ct |-> 2]>> >>).reg

\* the classes get_subclass_by_name can return
ObtainableClasses(reg) == {reg[n] : n \in DOMAIN reg} \cup {ReleVecClass}

IdxInputs == -1..MaxIdx

ValInputs == 0..MaxVal

DimNamInputs == {"a", "b", "z"}

KeyInputs == {IntKey(i) : i \in IdxInputs} \cup {StrKey(s) : s \in {"a", "z"}}

\* dimdict items: pairwise distinct keys, non-zero values
DimDicts ==
    { dd \in UNION { [1..n -> KeyInputs \X (1..MaxVal)] : n \in 0..MaxPairs } :
        \A i, j \in 1..Len(dd) : i # j => dd[i][1] # dd[j][1] }

ShortDimDicts == { dd \in DimDicts : Len(dd) <= 1 }

(***************************************************************************)
(* Vector operations                                                       *)
(***************************************************************************)
VArg(v, w, key, val) == [v |-> v, w |-> w, key |-> key, val |-> val]

VCall(op, arg, r) ==
    [op |-> op, name |-> <<>>, arg |-> arg, pre |-> EmptyDict,
     ret |-> r.ret, err |-> r.err]

SetVec(v, cls, sv) == vecs' = [vecs EXCEPT ![v] = MkVec(cls, sv)]

InitVec ==
    /\ registry = VecRegistry
    /\ vecs = <<NoVec>>
    /\ last = NoCall

InitPair ==
    /\ registry = VecRegistry
    /\ vecs = <<NoVec, NoVec>>
    /\ last = NoCall

NewInstance(dimdicts) ==
    \E v \in DOMAIN vecs, cls \in ObtainableClasses(registry),
       dimdict \in dimdicts :
        LET r == new_instance(cls, dimdict) IN
        /\ IF r.err = NoErr THEN SetVec(v, cls, r.sparse_vec)
           ELSE UNCHANGED vecs
        /\ last' = VCall("new_instance", VArg(v, v, IntKey(0), 0), r)
        /\ UNCHANGED registry

SetVecByDimdict(dimdicts) ==
    \E v \in DOMAIN vecs, dimdict \in dimdicts :
        LET r == set_vec_by_dimdict(vecs[v], dimdict) IN
        /\ vecs[v] # NoVec
        /\ SetVec(v, vecs[v].cls, r.sparse_vec)
        /\ last' = VCall("set_vec_by_dimdict", VArg(v, v, IntKey(0), 0), r)
        /\ UNCHANGED registry

SetDimvalByDimidx ==
    \E v \in DOMAIN vecs, dimidx \in IdxInputs, dimval \in ValInputs :
        LET r == set_dimval_by_dimidx(vecs[v], IntKey(dimidx), dimval) IN
        /\ vecs[v] # NoVec
        /\ SetVec(v, vecs[v].cls, r.sparse_vec)
        /\ last' = VCall("set_dimval_by_dimidx",
                         VArg(v, v, IntKey(dimidx), dimval), r)
        /\ UNCHANGED registry

GetDimvalByDimidx ==
    \E v \in DOMAIN vecs, dimidx \in IdxInputs :
        LET r == get_dimval_by_dimidx(vecs[v], IntKey(dimidx)) IN
        /\ vecs[v] # NoVec
        /\ last' = VCall("get_dimval_by_dimidx",
                         VArg(v, v, IntKey(dimidx), 0), r)
        /\ UNCHANGED <<registry, vecs>>

SetDimvalByDimnam ==
    \E v \in DOMAIN vecs, dimnam \in DimNamInputs, dimval \in ValInputs :
        LET r == set_dimval_by_dimnam(vecs[v], dimnam, dimval) IN
        /\ vecs[v] # NoVec
        /\ issubclass(vecs[v].cls, NamedDimBaseClass)
        /\ SetVec(v, vecs[v].cls, r.sparse_vec)
        /\ last' = VCall("set_dimval_by_dimnam",
                         VArg(v, v, StrKey(dimnam), dimval), r)
        /\ UNCHANGED registry

GetDimvalByDimnam ==
    \E v \in DOMAIN vecs, dimnam \in DimNamInputs :
        LET r == get_dimval_by_dimnam(vecs[v], dimnam) IN
        /\ vecs[v] # NoVec
        /\ issubclass(vecs[v].cls, NamedDimBaseClass)
        /\ last' = VCall("get_dimval_by_dimnam",
                         VArg(v, v, StrKey(dimnam), 0), r)
        /\ UNCHANGED <<registry, vecs>>

IsValidDimidx ==
    \E v \in DOMAIN vecs, dimidx \in IdxInputs :
        LET r == is_valid_dimidx(vecs[v].cls, IntKey(dimidx)) IN
        /\ vecs[v] # NoVec
        /\ last' = VCall("is_valid_dimidx", VArg(v, v, IntKey(dimidx), 0), r)
        /\ UNCHANGED <<registry, vecs>>

Normalize ==
    \E v \in DOMAIN vecs :
        LET r == normalize(vecs[v]) IN
        /\ vecs[v] # NoVec
        /\ SetVec(v, vecs[v].cls, r.sparse_vec)
        /\ last' = VCall("normalize", VArg(v, v, IntKey(0), 0), r)
        /\ UNCHANGED registry

IsNormalized ==
    \E v \in DOMAIN vecs :
        LET r == is_normalized(vecs[v]) IN
        /\ vecs[v] # NoVec
        /\ last' = VCall("is_normalized", VArg(v, v, IntKey(0), 0), r)
        /\ UNCHANGED <<registry, vecs>>

DotProduct ==
    \E v \in DOMAIN vecs, w \in DOMAIN vecs :
        LET r == dot_product(vecs[v], vecs[w]) IN
        /\ vecs[v] # NoVec
        /\ vecs[w] # NoVec
        /\ last' = VCall("dot_product", VArg(v, w, IntKey(0), 0), r)
        /\ UNCHANGED <<registry, vecs>>

ExportDict ==
    \E v \in DOMAIN vecs :
        LET r == export_dict(vecs[v]) IN
        /\ vecs[v] # NoVec
        /\ last' = VCall("export_dict", VArg(v, v, IntKey(0), 0), r)
        /\ UNCHANGED <<registry, vecs>>

\* vecs[v].import_dict(vecs[w].export_dict())
ImportDict ==
    \E v \in DOMAIN vecs, w \in DOMAIN vecs :
        LET e == export_dict(vecs[w])
            r == import_dict(vecs[v], e.ret)
        IN  /\ vecs[v] # NoVec
            /\ vecs[w] # NoVec
            /\ e.err = NoErr
            /\ SetVec(v, vecs[v].cls, r.sparse_vec)
            /\ last' = VCall("import_dict", VArg(v, w, IntKey(0), 0), r)
            /\ UNCHANGED registry

NextVec ==
    \/ NewInstance(DimDicts)
    \/ SetVecByDimdict(DimDicts)
    \/ SetDimvalByDimidx
    \/ GetDimvalByDimidx
    \/ SetDimvalByDimnam
    \/ GetDimvalByDimnam
    \/ IsValidDimidx
    \/ Normalize
    \/ IsNormalized
    \/ DotProduct
    \/ ExportDict
    \/ ImportDict

SpecVec == InitVec /\ [][NextVec]_vars

NextPair ==
    \/ NewInstance(ShortDimDicts)
    \/ GetDimvalByDimidx
    \/ DotProduct
    \/ ExportDict
    \/ ImportDict

SpecPair == InitPair /\ [][NextPair]_vars

(***************************************************************************)
(* Registry properties                                                     *)
(***************************************************************************)
\* C1: a name that is registered stays registered and keeps denoting the
\* same class (same base, same count, same dimension names in the same
\* order) across every call, successful or failing.
C1_RegisteredStaysRegistered ==
    [][\A n \in DOMAIN registry :
          n \in DOMAIN registry' /\ registry'[n] = registry[n]]_vars

\* C1 witness: an import or a creation was attempted on a registered name
\* with a shape that differs from the recorded one.
C1_Witness ==
    /\ last.op \in {"import_substruct_dict", "get_specified_subclass"}
    /\ last.name \in DOMAIN last.pre
    /\ export_substruct_dict(last.pre[last.name]) # last.arg
    /\ last.name \in DOMAIN registry

\* the names of a subclasses_dict are well-formed
WellFormedNames(items) ==
    \A i \in 1..Len(items) : reject_bad_subclass_name(items[i][1]) = NoErr

\* the schema records of a subclasses_dict are {}, {dim_ct: n} or
\* {dim_names: distinct names}
PlainShapes(items) ==
    \A i \in 1..Len(items) :
        /\ DOMAIN items[i][2] \in {{}, {"dim_ct"}, {"dim_names"}}
        /\ HasKey(items[i][2], "dim_names") =>
             enumerate_dim_names(items[i][2]["dim_names"]).err = NoErr

\* a subclasses_dict as a mapping, for comparison modulo key order
AsMapping(items) ==
    [n \in {items[i][1] : i \in 1..Len(items)} |->
        items[CHOOSE i \in 1..Len(items) : items[i][1] = n][2]]

\* C3 as stated: from the empty registry, importing any record with
\* distinct well-formed names and plain shapes succeeds, and exporting
\* afterwards gives the record back.
C3_Original ==
    (/\ last.op = "import_subclasses_dict"
     /\ last.pre = EmptyDict
     /\ WellFormedNames(last.arg)
     /\ PlainShapes(last.arg))
    => (/\ last.err = NoErr
        /\ export_subclasses_dict(registry) = AsMapping(last.arg))

\* C3 amended: the same, for records none of whose names is bound in the
\* module's global namespace.
C3_RegistryRoundTrip ==
    (/\ last.op = "import_subclasses_dict"
     /\ last.pre = EmptyDict
     /\ WellFormedNames(last.arg)
     /\ \A i \in 1..Len(last.arg) : last.arg[i][1] \notin ModuleGlobals
     /\ PlainShapes(last.arg))
    => (/\ last.err = NoErr
        /\ export_subclasses_dict(registry) = AsMapping(last.arg))

\* C3 witness: a record with a counted and a named class was imported into
\* the empty registry.
C3_Witness ==
    /\ last.op = "import_subclasses_dict"
    /\ last.pre = EmptyDict
    /\ last.err = NoErr
    /\ \E i, j \in 1..Len(last.arg) :
          /\ HasKey(last.arg[i][2], "dim_ct")
          /\ HasKey(last.arg[j][2], "dim_names")
          /\ Len(last.arg[j][2]["dim_names"]) > 1

\* C4: get_specified_subclass on a registered name returns the recorded
\* class without error and leaves the registry as it was, whatever shape
\* is passed.
C4_GetExistingReturnsRecorded ==
    (last.op = "get_specified_subclass" /\ last.name \in DOMAIN last.pre)
    => (/\ last.err = NoErr
        /\ last.ret = last.pre[last.name]
        /\ registry = last.pre)

\* C4 witness: the call was made on a registered name with a shape other
\* than the recorded one.
C4_Witness ==
    /\ last.op = "get_specified_subclass"
    /\ last.name \in DOMAIN last.pre
    /\ create_subclass(last.name, last.arg).cls # last.pre[last.name]

\* C5: import_substruct_dict on a registered name raises
\* SvSubclassNameInUse and leaves the registry as it was.
C5_ImportExistingNameInUse ==
    (last.op = "import_substruct_dict" /\ last.name \in DOMAIN last.pre)
    => (/\ last.err.exc = "SvSubclassNameInUse"
        /\ registry = last.pre)

\* the entry cannot be imported into the registry reg
EntryFails(reg, entry) ==
    \/ entry[1] \in DOMAIN reg
    \/ entry[1] \in ModuleGlobals
    \/ reject_bad_subclass_name(entry[1]) # NoErr
    \/ /\ HasKey(entry[2], "dim_names")
       /\ Cardinality({entry[2]["dim_names"][i] :
                          i \in 1..Len(entry[2]["dim_names"])})
            # Len(entry[2]["dim_names"])

\* the entries of items before the first one that fails
ImportedPrefix(reg, items) ==
    LET F == {k \in 1..Len(items) : EntryFails(reg, items[k])}
    IN  IF F = {} THEN Len(items)
        ELSE (CHOOSE k \in F : \A m \in F : k <= m) - 1

\* C6: import_subclasses_dict registers the entries before the first
\* failing one, registers neither that entry nor a later one, keeps what
\* was registered, and raises exactly when an entry fails.
C6_ImportAllStopsAtFirstFailure ==
    last.op = "import_subclasses_dict" =>
        LET items == last.arg
            k == ImportedPrefix(last.pre, items)
        IN  /\ (last.err # NoErr) <=> (k < Len(items))
            /\ DOMAIN registry =
                 DOMAIN last.pre \cup {items[j][1] : j \in 1..k}
            /\ \A n \in DOMAIN last.pre : registry[n] = last.pre[n]
            /\ \A j \in 1..k :
                 export_substruct_dict(registry[items[j][1]])
                   = [x \in (IF HasKey(items[j][2], "dim_names")
                             THEN {"dim_names"} ELSE DOMAIN items[j][2])
                        |-> items[j][2][x]]

\* C6 witness: an entry was imported, the next one failed, and an
\* importable entry followed it.
C6_Witness ==
    /\ last.op = "import_subclasses_dict"
    /\ last.err # NoErr
    /\ Len(last.arg) > 2
    /\ ImportedPrefix(last.pre, last.arg) = 1
    /\ ~EntryFails(last.pre, last.arg[3])
    /\ last.arg[1][1] \in DOMAIN registry
    /\ last.arg[3][1] \notin DOMAIN registry

(***************************************************************************)
(* Vector properties                                                       *)
(***************************************************************************)
\* the validity predicate of the schema a class stands for: Unconstrained
\* (a direct subclass of ReleVec, or ReleVec itself), Bounded, Named
ValidForSchema(cls, idx) ==
    /\ idx >= 0
    /\ cls.base = LimitedIdxBaseName => idx < cls.dimidx_ct
    /\ cls.base = NamedDimBaseName => idx < Len(cls.dim_registry)

IsBoundedSchema(cls) == cls.base = LimitedIdxBaseName

\* C2: importing the export of a vector into a vector of the same class
\* succeeds and makes every valid index read as in the exported vector.
C2_VectorRoundTrip ==
    (/\ last.op = "import_dict"
     /\ last.arg.v # last.arg.w
     /\ vecs[last.arg.v].cls = vecs[last.arg.w].cls)
    => (/\ last.err = NoErr
        /\ \A idx \in 0..MaxIdx :
             ValidForSchema(vecs[last.arg.v].cls, idx) =>
                get_dimval_by_dimidx(vecs[last.arg.v], IntKey(idx)).ret
                  = get_dimval_by_dimidx(vecs[last.arg.w], IntKey(idx)).ret)

C7_KeysValid ==
    \A v \in DOMAIN vecs :
        \A k \in DOMAIN vecs[v].sparse_vec : ValidForSchema(vecs[v].cls, k)

C7_SetOutOfRangeStoresNothing ==
    [][(/\ last'.op = "set_dimval_by_dimidx"
        /\ IsBoundedSchema(vecs[last'.arg.v].cls)
        /\ last'.arg.key.i >= vecs[last'.arg.v].cls.dimidx_ct)
       => (/\ last'.err = AssertionError("dimidx invalid")
           /\ vecs' = vecs)]_vars

\* C7: every key present in a vector's sparse_vec satisfies the validity
\* predicate of the vector's schema, after any sequence of calls; setting an
\* index >= count on a Bounded schema fails the validity assert and stores
\* nothing.
C7_PresentKeysValid == []C7_KeysValid /\ C7_SetOutOfRangeStoresNothing

\* C7 witness: a set beyond the count was refused on a non-empty Bounded
\* vector.
C7_Witness ==
    /\ last.op = "set_dimval_by_dimidx"
    /\ last.err # NoErr
    /\ IsBoundedSchema(vecs[last.arg.v].cls)
    /\ last.arg.key.i >= vecs[last.arg.v].cls.dimidx_ct
    /\ vecs[last.arg.v].sparse_vec # EmptyDict

C8_AbsentReadsZero ==
    \A v \in DOMAIN vecs : \A idx \in 0..MaxIdx :
        (/\ vecs[v] # NoVec
         /\ ValidForSchema(vecs[v].cls, idx)
         /\ idx \notin DOMAIN vecs[v].sparse_vec)
        => (/\ get_dimval_by_dimidx(vecs[v], IntKey(idx)).err = NoErr
            /\ get_dimval_by_dimidx(vecs[v], IntKey(idx)).ret = 0)

C8_GetAfterSet ==
    [][(last'.op = "set_dimval_by_dimidx" /\ last'.err = NoErr)
       => LET v == last'.arg.v
              idx == last'.arg.key.i
          IN  /\ get_dimval_by_dimidx(vecs'[v], IntKey(idx)).err = NoErr
              /\ get_dimval_by_dimidx(vecs'[v], IntKey(idx)).ret
                   = last'.arg.val
              /\ \A j \in (0..MaxIdx) \ {idx} :
                    ValidForSchema(vecs[v].cls, j) =>
                       get_dimval_by_dimidx(vecs'[v], IntKey(j)).ret
                         = get_dimval_by_dimidx(vecs[v], IntKey(j)).ret]_vars

\* C8: a valid index without an entry reads 0.0; after a successful set the
\* index reads the value set, and every other valid index reads what it read
\* before.
C8_SparseGetSet == []C8_AbsentReadsZero /\ C8_GetAfterSet

\* C8 witness: a set succeeded on a vector that holds a non-zero value at
\* another index.
C8_Witness ==
    /\ last.op = "set_dimval_by_dimidx"
    /\ last.err = NoErr
    /\ \E j \in DOMAIN vecs[last.arg.v].sparse_vec :
          /\ j # last.arg.key.i
          /\ vecs[last.arg.v].sparse_vec[j] # 0

\* C9: normalize on a vector whose magnitude_squared is at least eps returns
\* normally, keeps the set of present keys, and is_normalized() is then true.
C9_NormalizeYieldsUnit ==
    [][(/\ last'.op = "normalize"
        /\ ~LessThanEps(get_magnitude_squared(vecs[last'.arg.v])))
       => (/\ last'.err = NoErr
           /\ DOMAIN vecs'[last'.arg.v].sparse_vec
                = DOMAIN vecs[last'.arg.v].sparse_vec
           /\ is_normalized(vecs'[last'.arg.v]).err = NoErr
           /\ is_normalized(vecs'[last'.arg.v]).ret = TRUE)]_vars

\* C10: dot_product fails the instance assert whenever the two vectors are
\* not of the very same class.
C10_DotRejectsOtherSchema ==
    (/\ last.op = "dot_product"
     /\ vecs[last.arg.v].cls # vecs[last.arg.w].cls)
    => last.err = AssertionError("target_vec is not an instance")

(***************************************************************************)
(* Shape arguments, lookup and index validity                              *)
(***************************************************************************)
\* C11: get_specified_subclass on an unregistered, well-formed name with
\* both dim_ct and dim_names supplied fails and registers nothing.
C11_BothShapesRejected ==
    (/\ last.op = "get_specified_subclass"
     /\ last.name \notin DOMAIN last.pre
     /\ reject_bad_subclass_name(last.name) = NoErr
     /\ DOMAIN last.arg = {"dim_names", "dim_ct"})
    => (/\ last.err # NoErr
        /\ registry = last.pre)

\* C12 as stated: get_subclass_by_name returns a class exactly for the
\* names export_subclasses_dict lists, namely the registered class, and
\* None for every other name.
C12_Original ==
    last.op = "get_subclass_by_name" =>
        /\ (last.ret # NoClass)
             <=> (last.name \in DOMAIN export_subclasses_dict(registry))
        /\ last.name \in DOMAIN registry => last.ret = registry[last.name]

\* C12 amended: the same for every name other than "ReleVec"; for
\* "ReleVec", which is never a key of the registry, the base class ReleVec
\* itself is returned.
C12_LookupMatchesRegistry ==
    last.op = "get_subclass_by_name" =>
        /\ last.name # ReleVecName =>
             (last.ret # NoClass)
               <=> (last.name \in DOMAIN export_subclasses_dict(registry))
        /\ last.name \in DOMAIN registry => last.ret = registry[last.name]
        /\ last.name = ReleVecName =>
             (last.ret = ReleVecClass /\ ReleVecName \notin DOMAIN registry)

\* C12 witness: with one name registered and another one not, the
\* unregistered name was looked up and None came back.
C12_Witness ==
    /\ last.op = "get_subclass_by_name"
    /\ registry # EmptyDict
    /\ last.name \in {NameCi, NameCn}
    /\ last.name \notin DOMAIN registry
    /\ last.ret = NoClass

\* C13 as stated: is_valid_dimidx with a negative int raises instead of
\* returning False, whatever the class.
C13_Original ==
    (last.op = "is_valid_dimidx" /\ last.arg.key.i < 0)
    => last.err # NoErr

\* C13 amended: is_valid_dimidx with a negative int returns False without
\* raising, for an unembellished, a counted and a named class alike.
C13_NegativeIndexIsInvalid ==
    (last.op = "is_valid_dimidx" /\ last.arg.key.i < 0)
    => (/\ last.err = NoErr
        /\ last.ret = FALSE)

\* C13 witness: is_valid_dimidx(-1) was called on a named class.
C13_Witness ==
    /\ last.op = "is_valid_dimidx"
    /\ last.arg.key.i < 0
    /\ vecs[last.arg.v].cls.base = NamedDimBaseName

====
